---- MODULE Spec2Model ----
(***************************************************************************)
(* Figure numbering and anchors of library/src/meta/figure.rs.             *)
(*                                                                         *)
(* Content is modelled as a flat sequence of atoms (a sequence element is  *)
(* flattened into its parent when two contents are added).  The counters'  *)
(* state is the log of Step updates met in document order; a display atom  *)
(* shows the value of its counter replayed up to the atom's position.      *)
(***************************************************************************)
EXTENDS Integers, Sequences, FiniteSets, TLC

\* Number of figures the driver visits in one document pass.
MaxFigures == 3

\* #[default(Em::new(0.65).into())] pub gap, in hundredths of an em.
DefaultGap == 65

VARIABLES pc, fig, styles, result, hist, displays, numbered, nshown

vars == <<pc, fig, styles, result, hist, displays, numbered, nshown>>

-----------------------------------------------------------------------------
(* Content: a flat sequence of atoms *)

Atom(t, s, p, n) == [t |-> t, s |-> s, p |-> p, n |-> n]
\* TextElem::packed(text)
TextElem_packed(s) == Atom("text", s, "", 0)
NBSP == TextElem_packed("\\u{a0}")
\* VElem::weak(amount).pack()
VElem_weak(gap) == Atom("v", "weak", "", gap)
\* counter.update(CounterUpdate::Step(level))
Counter_update(key, level) == Atom("update", key, "", level)
\* counter.display(Some(numbering), false)
Counter_display(key, numbering) == Atom("display", key, numbering, 0)

Content_empty == << >>
is_empty(c) == Len(c) = 0
\* Content + Content: both sides are flattened into one sequence.
Add(a, b) == a \o b

\* Option<Content>; `set` is FALSE for a field the element does not carry,
\* so that the #[default] decides.
None == [set |-> TRUE, some |-> FALSE, v |-> << >>]
Some(v) == [set |-> TRUE, some |-> TRUE, v |-> v]
Unset == [set |-> FALSE, some |-> FALSE, v |-> << >>]
unwrap_or_default(o) == IF o.some THEN o.v ELSE Content_empty

\* Option<Numbering>, the numbering being its pattern text.
NumNone == [set |-> TRUE, some |-> FALSE, p |-> ""]
NumSome(p) == [set |-> TRUE, some |-> TRUE, p |-> p]
NumUnset == [set |-> FALSE, some |-> FALSE, p |-> ""]

\* SourceResult<T>
Ok(v) == [ok |-> TRUE, err |-> "", val |-> v]
Err(e) == [ok |-> FALSE, err |-> e, val |-> << >>]

-----------------------------------------------------------------------------
(* Counter *)

FigureKey == "figure"
Keys == {FigureKey, "table"}
Levels == {1, 2}

\* Counter::of(Self::func())
Counter_of(kind) == kind

\* Variant: the deeper levels are kept and set to zero.
step_zeroing(v, n) ==
    [i \in 1..(IF Len(v) >= n THEN Len(v) ELSE n) |->
        IF i < n THEN (IF i <= Len(v) THEN v[i] ELSE 0)
        ELSE IF i = n THEN (IF i <= Len(v) THEN v[i] + 1 ELSE 1)
        ELSE 0]

\* A Step update: level n is incremented and the deeper levels are dropped;
\* a level that did not exist yet starts at one.
step(v, n) ==
    IF Len(v) >= n
    THEN [i \in 1..n |-> IF i = n THEN v[i] + 1 ELSE v[i]]
    ELSE [i \in 1..n |-> IF i <= Len(v) THEN v[i] ELSE 1]

\* Value of a counter after replaying its update log h.
RECURSIVE value_at(_)
value_at(h) ==
    IF h = << >> THEN <<0>>
    ELSE step(value_at(SubSeq(h, 1, Len(h) - 1)), h[Len(h)])

\* The realized content is traversed in document order: an update atom is
\* appended to its counter's log, a display atom shows the value replayed
\* up to its position.
RECURSIVE Introspect(_, _, _)
Introspect(c, h, d) ==
    IF c = << >> THEN [hist |-> h, displays |-> d]
    ELSE LET a == Head(c) IN
         IF a.t = "update"
         THEN Introspect(Tail(c), [h EXCEPT ![a.s] = Append(@, a.n)], d)
         ELSE IF a.t = "display"
         THEN Introspect(Tail(c), h, Append(d, value_at(h[a.s])))
         ELSE Introspect(Tail(c), h, d)

-----------------------------------------------------------------------------
(* Elements *)

Langs == {"de", "en", "fr"}

\* Variant: the two names are exchanged.
local_name_swapped(lang) ==
    IF lang = "de" THEN "Figure" ELSE "Abbildung"

\* impl LocalName for FigureElem
local_name(lang) ==
    IF lang = "de" THEN "Abbildung" ELSE "Figure"

\* Field accessors: the element's own field, else the style chain, else the
\* #[default] of the field.
FigureElem_numbering(f, st) ==
    IF f.numbering.set THEN f.numbering
    ELSE IF st.numbering.set THEN st.numbering
    ELSE NumSome("1")

\* Variant: the figure's own counter field is ignored.
FigureElem_counter_kind(f) == Counter_of(FigureKey)

FigureElem_counter(f) ==
    IF f.counter.set THEN f.counter.key ELSE Counter_of(FigureKey)

\* Variant: the default separator is lost.
FigureElem_sep_none(f) ==
    IF f.sep.set THEN f.sep ELSE None

FigureElem_sep(f) ==
    IF f.sep.set THEN f.sep ELSE Some(<<TextElem_packed(": ")>>)

FigureElem_caption(f) ==
    IF f.caption.set THEN f.caption ELSE None

FigureElem_gap(f) == f.gap

\* AnchorElem::level: #[default(NonZeroUsize::ONE)], read from the styles.
AnchorElem_level(st) == st.level

\* Supplement::resolve(supplement, vt, elem, styles)
Supplement_resolve(s, st) ==
    CASE s.kind = "auto" -> Ok(Some(<<TextElem_packed(local_name(st.lang))>>))
      [] s.kind = "none" -> Ok(None)
      [] s.kind = "content" -> Ok(Some(s.c))
      [] s.kind = "func" -> IF s.err # "" THEN Err(s.err) ELSE Ok(Some(s.c))

\* impl Synthesize for FigureElem
FigureElem_synthesize(f, st) ==
    [f EXCEPT !.numbering = FigureElem_numbering(f, st)]

\* AnchorElem::new(counter, supplement, numbering)
AnchorElem_new(counter, supplement, numbering) ==
    [counter |-> counter, supplement |-> supplement, numbering |-> numbering]

\* Variant: a failed resolution falls back to the automatic supplement.
FigureElem_anchor_fallback(f, st) ==
    LET supplement == Supplement_resolve(f.supplement, st)
        auto == Some(<<TextElem_packed(local_name(st.lang))>>)
    IN Ok(AnchorElem_new(FigureElem_counter(f),
                         IF supplement.ok THEN supplement.val ELSE auto,
                         FigureElem_numbering(f, st)))

\* impl RefAnchor for FigureElem
FigureElem_anchor(f, st) ==
    LET supplement == Supplement_resolve(f.supplement, st) IN
    IF ~supplement.ok THEN Err(supplement.err)
    ELSE Ok(AnchorElem_new(FigureElem_counter(f), supplement.val,
                           FigureElem_numbering(f, st)))

\* Variant: the counter is displayed before it is stepped.
AnchorElem_show_displayFirst(a, st) ==
    LET content1 == IF a.supplement.some
                    THEN Add(Content_empty, Add(a.supplement.v, <<NBSP>>))
                    ELSE Content_empty
        number == IF a.numbering.some
                  THEN Add(<<Counter_display(a.counter, a.numbering.p)>>,
                           <<Counter_update(a.counter, AnchorElem_level(st))>>)
                  ELSE Content_empty
    IN Ok(Add(content1, number))

\* Variant: the counter is displayed without being stepped.
AnchorElem_show_noStep(a, st) ==
    LET content1 == IF a.supplement.some
                    THEN Add(Content_empty, Add(a.supplement.v, <<NBSP>>))
                    ELSE Content_empty
        number == IF a.numbering.some
                  THEN <<Counter_display(a.counter, a.numbering.p)>>
                  ELSE Content_empty
    IN Ok(Add(content1, number))

\* impl Show for AnchorElem
AnchorElem_show(a, st) ==
    LET content0 == Content_empty
        content1 == IF a.supplement.some
                    THEN Add(content0, Add(a.supplement.v, <<NBSP>>))
                    ELSE content0
        number == IF a.numbering.some
                  THEN Add(<<Counter_update(a.counter, AnchorElem_level(st))>>,
                           <<Counter_display(a.counter, a.numbering.p)>>)
                  ELSE Content_empty
    IN Ok(Add(content1, number))

\* BlockElem::new().with_body(..).with_breakable(false).pack().aligned(..)
Block(realized) ==
    [body |-> realized, breakable |-> FALSE, alignx |-> "center"]

\* Variant: the gap and the caption buffer are appended even when the buffer
\* is empty.
FigureElem_show_alwaysGap(f, st) ==
    LET numbered_ == FigureElem_numbering(f, st).some
        anchor == FigureElem_anchor(f, st)
        caption == FigureElem_caption(f)
    IN
    IF numbered_ /\ ~anchor.ok THEN Err(anchor.err)
    ELSE
    LET shown == AnchorElem_show(anchor.val, st)
        cap1 == IF numbered_ THEN Add(Content_empty, shown.val) ELSE Content_empty
        cap2 == IF caption.some /\ ~is_empty(cap1)
                THEN Add(cap1, unwrap_or_default(FigureElem_sep(f)))
                ELSE cap1
        cap3 == IF caption.some THEN Add(cap2, caption.v) ELSE cap2
        realized == Add(Add(f.body, <<VElem_weak(FigureElem_gap(f))>>), cap3)
    IN Ok(Block(realized))

\* Variant: the separator is appended before every caption.
FigureElem_show_alwaysSep(f, st) ==
    LET numbered_ == FigureElem_numbering(f, st).some
        anchor == FigureElem_anchor(f, st)
        caption == FigureElem_caption(f)
    IN
    IF numbered_ /\ ~anchor.ok THEN Err(anchor.err)
    ELSE
    LET shown == AnchorElem_show(anchor.val, st)
        cap1 == IF numbered_ THEN Add(Content_empty, shown.val) ELSE Content_empty
        cap2 == IF caption.some
                THEN Add(cap1, unwrap_or_default(FigureElem_sep(f)))
                ELSE cap1
        cap3 == IF caption.some THEN Add(cap2, caption.v) ELSE cap2
        realized == IF ~is_empty(cap3)
                    THEN Add(Add(f.body, <<VElem_weak(FigureElem_gap(f))>>), cap3)
                    ELSE f.body
    IN Ok(Block(realized))

\* impl Show for FigureElem
FigureElem_show(f, st) ==
    LET numbered_ == FigureElem_numbering(f, st).some
        anchor == FigureElem_anchor(f, st)
        caption == FigureElem_caption(f)
    IN
    IF numbered_ /\ ~anchor.ok THEN Err(anchor.err)
    ELSE
    LET shown == AnchorElem_show(anchor.val, st)
        cap1 == IF numbered_ THEN Add(Content_empty, shown.val) ELSE Content_empty
        cap2 == IF caption.some /\ ~is_empty(cap1)
                THEN Add(cap1, unwrap_or_default(FigureElem_sep(f)))
                ELSE cap1
        cap3 == IF caption.some THEN Add(cap2, caption.v) ELSE cap2
        realized == IF ~is_empty(cap3)
                    THEN Add(Add(f.body, <<VElem_weak(FigureElem_gap(f))>>), cap3)
                    ELSE f.body
    IN Ok(Block(realized))

-----------------------------------------------------------------------------
(* Inputs *)

Bodies == {<<TextElem_packed("image")>>}

Supplements ==
    {[kind |-> "auto", c |-> << >>, err |-> ""],
     [kind |-> "none", c |-> << >>, err |-> ""],
     [kind |-> "content", c |-> << >>, err |-> ""],
     [kind |-> "content", c |-> <<TextElem_packed("Fig.")>>, err |-> ""],
     [kind |-> "func", c |-> <<TextElem_packed("Plate")>>, err |-> ""],
     [kind |-> "func", c |-> << >>, err |-> "E1"],
     [kind |-> "func", c |-> << >>, err |-> "E2"]}

CounterFields == {[set |-> FALSE, key |-> ""], [set |-> TRUE, key |-> "table"]}

Figures ==
    [body : Bodies,
     supplement : Supplements,
     counter : CounterFields,
     numbering : {NumUnset, NumNone, NumSome("1")},
     sep : {Unset, None, Some(<<TextElem_packed(" - ")>>)},
     caption : {Unset, Some(<< >>), Some(<<TextElem_packed("caption")>>)},
     gap : {DefaultGap}]

Styles ==
    [lang : Langs, level : Levels, numbering : {NumUnset, NumNone}]

\* The figures and style chains the driver meets.  The text language is
\* read by the automatic supplement only, so it varies only there.
Inputs ==
    {in \in Figures \X Styles :
        in[2].lang = "en" \/ in[1].supplement.kind = "auto"}

NoFig == [body |-> << >>, supplement |-> [kind |-> "none", c |-> << >>, err |-> ""],
          counter |-> [set |-> FALSE, key |-> ""], numbering |-> NumUnset,
          sep |-> Unset, caption |-> Unset, gap |-> DefaultGap]
NoStyles == [lang |-> "en", level |-> 1, numbering |-> NumUnset]
NoResult == Ok(Block(<< >>))

-----------------------------------------------------------------------------
(* The document pass: one element at a time, synthesize then show *)

Init ==
    /\ pc = "idle"
    /\ fig = NoFig
    /\ styles = NoStyles
    /\ result = NoResult
    /\ hist = [k \in Keys |-> << >>]
    /\ displays = << >>
    /\ numbered = [k \in Keys |-> 0]
    /\ nshown = 0

\* The driver reaches the next figure of the document.
Place(f, st) ==
    /\ pc = "idle"
    /\ nshown < MaxFigures
    /\ pc' = "unrendered"
    /\ fig' = f
    /\ styles' = st
    /\ UNCHANGED <<result, hist, displays, numbered, nshown>>

Synthesize ==
    /\ pc = "unrendered"
    /\ fig' = FigureElem_synthesize(fig, styles)
    /\ pc' = "prepared"
    /\ UNCHANGED <<styles, result, hist, displays, numbered, nshown>>

Show ==
    /\ pc = "prepared"
    /\ LET r == FigureElem_show(fig, styles) IN
       /\ result' = r
       /\ IF r.ok
          THEN LET w == Introspect(r.val.body, hist, << >>) IN
               /\ hist' = w.hist
               /\ displays' = w.displays
               /\ numbered' = IF fig.numbering.some
                              THEN [numbered EXCEPT ![FigureElem_counter(fig)] = @ + 1]
                              ELSE numbered
               /\ pc' = "rendered"
          ELSE /\ pc' = "failed"
               /\ UNCHANGED <<hist, displays, numbered>>
    /\ nshown' = nshown + 1
    /\ UNCHANGED <<fig, styles>>

\* The block is handed to layout and the driver moves on.
Advance ==
    /\ pc = "rendered"
    /\ pc' = "idle"
    /\ fig' = NoFig
    /\ styles' = NoStyles
    /\ result' = NoResult
    /\ displays' = << >>
    /\ UNCHANGED <<hist, numbered, nshown>>

Next ==
    \/ \E in \in Inputs : Place(in[1], in[2])
    \/ Synthesize
    \/ Show
    \/ Advance

Spec == Init /\ [][Next]_vars

-----------------------------------------------------------------------------
(* Vocabulary of the properties *)

Rendered == pc = "rendered"
Shown == pc \in {"rendered", "failed"}
\* After synthesis the figure carries its effective numbering.
HasNumbering == fig.numbering.some
HasCaption == fig.caption.set /\ fig.caption.some
OwnKey == IF fig.counter.set THEN fig.counter.key ELSE "figure"
Gap == Atom("v", "weak", "", fig.gap)
Separator ==
    IF ~fig.sep.set THEN <<Atom("text", ": ", "", 0)>>
    ELSE IF fig.sep.some THEN fig.sep.v ELSE << >>
\* What show appended to the body.
Appended == SubSeq(result.val.body, Len(fig.body) + 1, Len(result.val.body))
\* The content the figure's anchor shows.
AnchorContent == AnchorElem_show(FigureElem_anchor(fig, styles).val, styles).val
\* The supplement content as configured (empty for none).
Resolved ==
    CASE fig.supplement.kind = "auto" ->
            <<Atom("text", IF styles.lang = "de" THEN "Abbildung" ELSE "Figure", "", 0)>>
      [] fig.supplement.kind = "none" -> << >>
      [] OTHER -> fig.supplement.c
Positions(c, t) == {i \in 1..Len(c) : c[i].t = t}
Front(h) == SubSeq(h, 1, Len(h) - 1)
Deepest(h) == CHOOSE m \in {h[i] : i \in 1..Len(h)} : \A i \in 1..Len(h) : h[i] <= m

\* C1: with numbering and caption both present, the caption buffer that show
\* appends to the body (after the gap) is the anchor content, then the
\* separator, then the caption content, each once, in that order, and
\* nothing else.
C1_CaptionBufferOrder ==
    (Rendered /\ HasNumbering /\ HasCaption) =>
        /\ result.ok
        /\ Len(Appended) >= 1
        /\ Tail(Appended) = AnchorContent \o Separator \o fig.caption.v

C1_Witness ==
    /\ Rendered /\ HasNumbering /\ HasCaption
    /\ ~fig.sep.set
    /\ fig.caption.v # << >>
    /\ fig.supplement.kind = "content" /\ fig.supplement.c # << >>

\* C2: without caption and without numbering, show returns the body
\* unchanged in the non-breakable centered block: nothing is appended, no
\* counter update or display is in the output, and show does not fail.
C2_BodyUnchanged ==
    (Shown /\ ~HasNumbering /\ ~HasCaption) =>
        /\ Rendered
        /\ result.ok
        /\ result.val.body = fig.body
        /\ result.val.breakable = FALSE
        /\ result.val.alignx = "center"
        /\ Positions(result.val.body, "update") = {}
        /\ displays = << >>

C2_Witness ==
    /\ Rendered /\ ~HasNumbering /\ ~HasCaption
    /\ fig.supplement.err # ""
    /\ \E k \in Keys : hist[k] # << >>

\* C3 as stated: a figure with numbering but no caption yields the gap and
\* exactly the anchor content; a figure with a caption but no numbering
\* yields the gap and the caption, with no separator and no anchor.
C3_AsStated ==
    Rendered =>
        /\ (HasNumbering /\ ~HasCaption) => Appended = <<Gap>> \o AnchorContent
        /\ (~HasNumbering /\ HasCaption) => Appended = <<Gap>> \o fig.caption.v

\* C3 amended: the separator is appended only when numbering and caption are
\* both present; numbering without caption yields the gap and exactly the
\* anchor content; a caption without numbering yields the gap and the
\* caption when the caption content is not empty, and an empty caption
\* content leaves the body with nothing appended.
C3_SeparatorOnlyBetween ==
    Rendered =>
        /\ (HasNumbering /\ ~HasCaption) => Appended = <<Gap>> \o AnchorContent
        /\ (~HasNumbering /\ HasCaption /\ fig.caption.v # << >>) =>
                Appended = <<Gap>> \o fig.caption.v
        /\ (~HasNumbering /\ HasCaption /\ fig.caption.v = << >>) =>
                Appended = << >>
        /\ (Separator # << >> /\ \E i \in 1..Len(Appended) : Appended[i] = Separator[1])
                => (HasNumbering /\ HasCaption)

C3_Witness ==
    /\ Rendered /\ ~HasNumbering /\ HasCaption
    /\ fig.caption.v # << >>
    /\ Separator # << >>

\* C4: the anchor emits the non-breaking space exactly when the supplement
\* resolves to non-empty content, directly after the supplement; otherwise
\* the anchor output starts with the number.
C4_NbspIffSupplementNonEmpty ==
    (Rendered /\ HasNumbering) =>
        /\ (NBSP \in {Appended[i] : i \in 1..Len(Appended)}) <=> (Resolved # << >>)
        /\ Resolved # << >> =>
              SubSeq(Appended, 2, Len(Resolved) + 2) = Resolved \o <<NBSP>>
        /\ Resolved = << >> => Appended[2].t = "update"

\* C5: on a fresh counter the k-th of k step(1) updates shows [k]; a
\* step(2) after a step(1) shows [1, 1]; a following step(1) shows [2].
C5_StepSequence ==
    (Rendered /\ HasNumbering) =>
        LET h == hist[OwnKey] IN
        /\ (\A i \in 1..Len(h) : h[i] = 1) => displays = << <<Len(h)>> >>
        /\ h = <<1, 2>> => displays = << <<1, 1>> >>
        /\ h = <<1, 2, 1>> => displays = << <<2>> >>

C5_Witness ==
    Rendered /\ HasNumbering /\ hist[OwnKey] = <<1, 2, 1>>

C7_OtherCountersUnchanged ==
    [][pc = "prepared" =>
        \A k \in Keys :
            hist'[k] = IF k = OwnKey /\ HasNumbering /\ pc' = "rendered"
                       THEN Append(hist[k], styles.level)
                       ELSE hist[k]]_vars

C7_Witness ==
    /\ Rendered /\ HasNumbering
    /\ fig.counter.set /\ fig.counter.key # "figure"
    /\ hist["figure"] # << >>
    /\ Len(hist[fig.counter.key]) >= 2

\* C8: when the supplement resolution of a shown figure fails, show returns
\* exactly that error: no content, no substituted supplement, and no
\* counter step.
C8_ErrorPropagated ==
    /\ [](  (Shown /\ HasNumbering /\ fig.supplement.err # "") =>
              /\ pc = "failed"
              /\ ~result.ok
              /\ result.err = fig.supplement.err
              /\ result.val = << >>)
    /\ [][pc' = "failed" => (hist' = hist /\ displays' = displays)]_vars

C8_Witness ==
    /\ pc = "failed"
    /\ fig.supplement.err = "E2"
    /\ \E k \in Keys : hist[k] # << >>

\* C9: the local name is "Abbildung" for German and "Figure" for English
\* and for any other language, and looking it up never fails.
C9_LocalName ==
    (Shown /\ HasNumbering /\ fig.supplement.kind = "auto") =>
        /\ Rendered
        /\ styles.lang = "de" => Appended[2] = Atom("text", "Abbildung", "", 0)
        /\ styles.lang = "en" => Appended[2] = Atom("text", "Figure", "", 0)
        /\ styles.lang \notin {"de", "en"} => Appended[2] = Atom("text", "Figure", "", 0)

C9_Witness ==
    /\ Rendered /\ HasNumbering
    /\ fig.supplement.kind = "auto"
    /\ styles.lang = "fr"

====
